---- MODULE Spec2Model ----
(***************************************************************************)
(* A model of the content graph resolver of src/src/Contentfully.ts:       *)
(* _query, _createLinks, _toMedia, _parseEntries, _parseEntry,             *)
(* _parseValueByLocale, _parseValue, _dereferenceLink and _flattenLocales. *)
(*                                                                         *)
(* JavaScript objects are insertion-ordered sequences of key/value         *)
(* entries.  Objects whose identity matters (link slots, models, media     *)
(* descriptors, media locale maps) live in `heap` and are named by their   *)
(* address; a value Ref(a) is a reference to heap[a].                      *)
(***************************************************************************)
EXTENDS Integers, Sequences, FiniteSets, TLC

(* ------------------------------ bounds -------------------------------- *)

\* the depth of nested _parseEntry calls at which the engine's call stack
\* is exhausted (RangeError)
MaxDepth == 4

\* the longest list of top-level items of a payload
MaxItems == 2

(* ------------------------------ values -------------------------------- *)

Undef == [k |-> "undef"]

S(s) == [k |-> "str", s |-> s]

N(n) == [k |-> "num", n |-> n]

B(b) == [k |-> "bool", b |-> b]

\* {sys: {type: "Link", linkType: lt, id: id}}
Link(lt, id) == [k |-> "link", lt |-> lt, id |-> id]

Arr(a) == [k |-> "arr", a |-> a]

\* a plain object held by value: its entries in insertion order
Obj(e) == [k |-> "obj", e |-> e]

\* a reference to the heap object at addr
Ref(addr) == [k |-> "ref", addr |-> addr]

\* a raw record held under _deferred
Raw(rec) == [k |-> "raw", rec |-> rec]

KV(key, v) == [key |-> key, v |-> v]

HasKey(e, key) == \E i \in 1..Len(e) : e[i].key = key

\* e[key]; undefined when the key is absent
GetKey(e, key) ==
    IF HasKey(e, key)
    THEN e[CHOOSE i \in 1..Len(e) : e[i].key = key].v
    ELSE Undef

\* e[key] = v: an existing key keeps its place, a new key goes last
PutKey(e, key, v) ==
    IF HasKey(e, key)
    THEN [i \in 1..Len(e) |-> IF e[i].key = key THEN KV(key, v) ELSE e[i]]
    ELSE Append(e, KV(key, v))

\* delete e[key]
DelKey(e, key) == SelectSeq(e, LAMBDA x : x.key # key)

\* _.assign(e, src)
RECURSIVE AssignKeys(_, _)
AssignKeys(e, src) ==
    IF src = <<>> THEN e
    ELSE AssignKeys(PutKey(e, Head(src).key, Head(src).v), Tail(src))

\* _.keys(e)
Keys(e) == [i \in 1..Len(e) |-> e[i].key]

\* _.pick(v, keys); an undefined v gives {}
Pick(v, keys) ==
    IF v.k = "obj"
    THEN Obj(SelectSeq(v.e, LAMBDA x : \E i \in 1..Len(keys) : keys[i] = x.key))
    ELSE Obj(<<>>)

\* the entries of an object value, by value or on the heap
Entries(v, h) ==
    IF v.k = "ref" THEN h[v.addr]
    ELSE IF v.k = "obj" THEN v.e
    ELSE <<>>

\* v[key] as JavaScript evaluates it: only objects have such a property
Prop(v, key, h) == GetKey(Entries(v, h), key)

\* JavaScript truthiness
Truthy(v) ==
    CASE v.k = "undef" -> FALSE
      [] v.k = "str"   -> v.s # ""
      [] v.k = "num"   -> v.n # 0
      [] v.k = "bool"  -> v.b
      [] OTHER         -> TRUE

\* typeof v !== "object"
IsPrimitive(v) == v.k \in {"undef", "str", "num", "bool"}

IsArray(v) == v.k = "arr"

\* value.sys !== undefined && value.sys.type === "Link"
IsLink(v) == v.k = "link"

\* _.isEmpty(v): true for undefined, numbers and booleans, for the empty
\* string, the empty array and the object with no keys
IsEmpty(v, h) ==
    CASE v.k = "undef" -> TRUE
      [] v.k = "str"   -> v.s = ""
      [] v.k = "num"   -> TRUE
      [] v.k = "bool"  -> TRUE
      [] v.k = "arr"   -> v.a = <<>>
      [] v.k = "obj"   -> v.e = <<>>
      [] v.k = "ref"   -> h[v.addr] = <<>>
      [] OTHER         -> FALSE

\* (mutant) the mapped array is kept as it is
CompactNone(a) == a

\* _.compact(a)
Compact(a) == SelectSeq(a, Truthy)

(* ------------------------- the payloads queried ------------------------ *)

\* a raw entry record: sys.id, sys.contentType.sys.id, sys.updatedAt ("" when
\* the record carries none) and its fields
Entry(id, updatedAt, fields) ==
    [id |-> id, type |-> "post", updatedAt |-> updatedAt, fields |-> fields]

\* a raw asset record: sys.id, sys.revision and its fields
Asset(id, fields) == [id |-> id, revision |-> 1, fields |-> fields]

\* an asset's file descriptor
File(url) ==
    Obj(<<KV("url", S(url)), KV("contentType", S("image/png")),
          KV("details", Obj(<<KV("size", N(10)),
                              KV("image", Obj(<<KV("width", N(1)),
                                                KV("height", N(1))>>))>>))>>)

EntryIds == {"e1", "e2", "e3"}

\* a field value as the query mode delivers it: bare, or keyed by locale
Wrap(multi, v) == IF multi THEN Obj(<<KV("en-US", v)>>) ELSE v

NoField == [k |-> "none"]

Fields(multi, title, f) ==
    <<KV("t", Wrap(multi, S(title)))>>
        \o (IF f = NoField THEN <<>> ELSE <<KV("f", Wrap(multi, f))>>)

\* the sequences over S of length 1..n
RECURSIVE SeqsUpTo(_, _)
SeqsUpTo(X, n) ==
    IF n = 0 THEN {}
    ELSE {<<x>> : x \in X}
         \cup SeqsUpTo(X, n - 1)
         \cup {Append(s, x) : s \in SeqsUpTo(X, n - 1), x \in X}

\* the entries of ids, in the order of all
RECURSIVE Pick3(_, _, _)
Pick3(all, ids, recs) ==
    IF all = <<>> THEN <<>>
    ELSE (IF Head(all) \in ids THEN <<recs[Head(all)]>> ELSE <<>>)
         \o Pick3(Tail(all), ids, recs)

Range(s) == {s[i] : i \in 1..Len(s)}

\* Reference graphs over three entries: e1 and e2 are top-level items or
\* includes, e3 is always an include; with dup, includes.Entry also holds
\* a stale copy of the first item.
GraphPayloads ==
    LET R1 == {Link("Entry", "e2"), Link("Entry", "e3"), Link("Entry", "e1"),
               Link("Entry", "zz"),
               Arr(<<Link("Entry", "e2"), Link("Entry", "e3")>>),
               Arr(<<Link("Entry", "e3"), Link("Entry", "zz")>>),
               Arr(<<Link("Entry", "zz"), Link("Entry", "e2")>>)}
        R2 == {NoField, Link("Entry", "e1"), Link("Entry", "e3"),
               Link("Entry", "zz")}
    IN  { LET recs == [id \in EntryIds |->
                          CASE id = "e1" -> Entry("e1", "u1", Fields(multi, "one", r1))
                            [] id = "e2" -> Entry("e2", "u2", Fields(multi, "two", r2))
                            [] OTHER     -> Entry("e3", "", Fields(multi, "three", NoField))]
              stale == Entry(its[1], "u0", Fields(multi, "stale", NoField))
          IN  [items    |-> [i \in 1..Len(its) |-> recs[its[i]]],
               incEntry |-> (IF dup THEN <<stale>> ELSE <<>>)
                            \o Pick3(<<"e1", "e2", "e3">>, EntryIds \ Range(its), recs),
               incAsset |-> <<>>,
               multi    |-> multi,
               transform |-> FALSE]
          : r1 \in R1, r2 \in R2, its \in SeqsUpTo({"e1", "e2"}, MaxItems),
            dup \in BOOLEAN, multi \in BOOLEAN }

\* One entry with one scalar field.  Single-locale: a string, a number or
\* a boolean, truthy or falsy.  Multi-locale: a text, number or boolean
\* field with, at each locale, no value, its value there or a falsy value.
ScalarPayloads ==
    LET Locs == <<"en-US", "fr", "de">>
        At(type, loc, c) ==
            CASE c = "falsy" ->
                    (CASE type = "text" -> S("") [] type = "num" -> N(0) [] OTHER -> B(FALSE))
              [] type = "text" ->
                    (CASE loc = "en-US" -> S("hi") [] loc = "fr" -> S("salut") [] OTHER -> S("hallo"))
              [] type = "num" ->
                    (CASE loc = "en-US" -> N(1) [] loc = "fr" -> N(2) [] OTHER -> N(3))
              [] OTHER -> B(TRUE)
        LMap(type, c) ==
            LET F[i \in 0..3] ==
                    IF i = 0 THEN <<>>
                    ELSE F[i - 1] \o (IF c[i] = "none" THEN <<>>
                                      ELSE <<KV(Locs[i], At(type, Locs[i], c[i]))>>)
            IN  Obj(F[3])
        One(multi, v) ==
            [items    |-> <<Entry("e1", "u1", <<KV("v", v)>>)>>,
             incEntry |-> <<>>, incAsset |-> <<>>,
             multi |-> multi, transform |-> FALSE]
    IN  {One(FALSE, v) : v \in {S("hi"), S(""), N(5), N(0), B(TRUE), B(FALSE)}}
        \cup {One(TRUE, LMap(type, c)) :
                type \in {"text", "num", "bool"},
                c \in {c \in [1..3 -> {"none", "value", "falsy"}] :
                         \E i \in 1..3 : c[i] # "none"}}

\* Entries whose fields reference assets.  Asset a1 has a description and,
\* in multi-locale mode, a file at en-US and fr; a2 has a file at en-US only.
AssetPayloads ==
    LET A(x) == Link("Asset", x)
        SingleAssets ==
            <<Asset("a1", <<KV("file", File("/a1")), KV("description", S("d1"))>>),
              Asset("a2", <<KV("file", File("/a2"))>>)>>
        MultiAssets ==
            <<Asset("a1", <<KV("file", Obj(<<KV("en-US", File("/a1-en")),
                                             KV("fr", File("/a1-fr"))>>)),
                            KV("description", Obj(<<KV("en-US", S("d1")),
                                                    KV("de", S("d1-de"))>>))>>),
              Asset("a2", <<KV("file", Obj(<<KV("en-US", File("/a2-en"))>>))>>)>>
        SingleImg == {A("a1"), A("zz"), Arr(<<A("a1"), A("a2")>>),
                      Arr(<<A("a1"), A("zz"), A("a1")>>)}
        MultiImg ==
            {Obj(<<KV("en-US", A("a1"))>>),
             Obj(<<KV("fr", A("a1"))>>),
             Obj(<<KV("en-US", A("a1")), KV("fr", A("a2"))>>),
             Obj(<<KV("fr", A("a2")), KV("en-US", A("a1"))>>),
             Obj(<<KV("en-US", A("a1")), KV("fr", A("zz"))>>),
             Obj(<<KV("en-US", A("zz"))>>),
             Obj(<<KV("en-US", Arr(<<A("a1"), A("a2")>>))>>)}
        One(multi, img, tr) ==
            [items    |-> <<Entry("e1", "u1", <<KV("img", img)>>)>>,
             incEntry |-> <<>>,
             incAsset |-> IF multi THEN MultiAssets ELSE SingleAssets,
             multi |-> multi, transform |-> tr]
    IN  {One(FALSE, img, tr) : img \in SingleImg, tr \in BOOLEAN}
        \cup {One(TRUE, img, tr) : img \in MultiImg, tr \in BOOLEAN}

\* Multi-locale entries whose reference field differs from locale to locale.
LocaleLinkPayloads ==
    LET E(x) == Link("Entry", x)
        F == {Obj(<<KV("en-US", E("e2")), KV("fr", E("e3"))>>),
              Obj(<<KV("fr", E("e2"))>>),
              Obj(<<KV("en-US", E("zz")), KV("fr", E("e2"))>>),
              Obj(<<KV("en-US", E("e2")), KV("fr", E("zz"))>>),
              Obj(<<KV("de", E("e2")), KV("fr", E("e2"))>>),
              Obj(<<KV("en-US", Arr(<<E("e2"), E("zz")>>)), KV("fr", Arr(<<E("e3")>>))>>)}
    IN  {[items    |-> <<Entry("e1", "u1", <<KV("f", f)>>)>>,
          incEntry |-> <<Entry("e2", "u2", Fields(TRUE, "two", NoField)),
                         Entry("e3", "", Fields(TRUE, "three", NoField))>>,
          incAsset |-> <<>>, multi |-> TRUE, transform |-> FALSE] : f \in F}

\* what contentful.query may answer
Payloads == GraphPayloads \cup ScalarPayloads \cup AssetPayloads \cup LocaleLinkPayloads

\* what contentful.getLocales may answer
Catalogs ==
    {<<[code |-> "en-US", default |-> TRUE], [code |-> "fr", default |-> FALSE],
       [code |-> "de", default |-> FALSE]>>,
     <<[code |-> "fr", default |-> TRUE], [code |-> "en-US", default |-> FALSE]>>}

(* ------------------------------- state --------------------------------- *)

VARIABLES
    json,       \* the payload contentful.query answered, the query's mode
                \* (multi) and whether options.mediaTransform is given
    pc,         \* where _query stands
    heap,       \* the objects made so far, by address
    links,      \* the Link Index: record id -> address of its slot object
    ai,         \* _createLinks: the index of the next included asset
    pending,    \* the _toMedia calls started and not yet settled
    hooks,      \* the mediaTransform invocations, in order
    rejected,   \* the (asset, locale) whose mediaTransform failed
    ii,         \* _parseEntries: the index of the next top-level item
    stack,      \* the _parseEntry calls in progress, innermost last
    calls,      \* the ids _parseEntry was called for, in order
    items,      \* the models _parseEntries has returned so far
    catalog,    \* what contentful.getLocales answered
    fl,         \* _flattenLocales: the index of the locale code
    fit,        \* _flattenLocales: the index of the top-level model
    queue,      \* _flattenLocales: the queue of (context, item, depth)
    out,        \* _flattenLocales: localeItems
    pushed,     \* the nodes pushed on the queue for the current item, in order
    visited,    \* the nodes taken from the queue for the current item, in order
    result      \* what _query returned: items, or the error it failed with

vars == <<json, pc, heap, links, ai, pending, hooks, rejected, ii, stack, calls, items,
          catalog, fl, fit, queue, out, pushed, visited, result>>

parseVars == <<ii, stack, calls, items>>

flattenVars == <<catalog, fl, fit, queue, out, pushed, visited>>

NoLinks == [x \in {} |-> 0]

\* links[id] = addr
Bind(l, id, addr) == [x \in DOMAIN l \cup {id} |-> IF x = id THEN addr ELSE l[x]]

Init ==
    /\ json \in Payloads
    /\ pc = "links"
    /\ heap = <<>>
    /\ links = NoLinks
    /\ ai = 1
    /\ pending = {}
    /\ hooks = <<>>
    /\ rejected = {}
    /\ ii = 1
    /\ stack = <<>>
    /\ calls = <<>>
    /\ items = <<>>
    /\ catalog = <<>>
    /\ fl = 1
    /\ fit = 1
    /\ queue = <<>>
    /\ out = <<>>
    /\ pushed = <<>>
    /\ visited = <<>>
    /\ result = Undef

(* ------------------------ the Link Index Builder ----------------------- *)

\* the inner forEach of _parseAssetByLocale: one field's locales
RECURSIVE parseAssetField(_, _, _, _)
parseAssetField(locales, key, field, fieldLocales) ==
    IF fieldLocales = <<>> THEN locales
    ELSE LET locale == Head(fieldLocales)
             fields == IF HasKey(locales, locale) THEN GetKey(locales, locale) ELSE <<>>
         IN  parseAssetField(
                 PutKey(locales, locale, PutKey(fields, key, GetKey(field.e, locale))),
                 key, field, Tail(fieldLocales))

RECURSIVE parseAssetFields(_, _)
parseAssetFields(locales, fields) ==
    IF fields = <<>> THEN locales
    ELSE parseAssetFields(
             parseAssetField(locales, Head(fields).key, Head(fields).v,
                             Keys(Head(fields).v.e)),
             Tail(fields))

\* _parseAssetByLocale: field -> locale -> value becomes locale -> field ->
\* value; the entries are (locale, the fields of that locale)
parseAssetByLocale(asset) == parseAssetFields(<<>>, asset.fields)

\* _toMedia up to the transform: the media descriptor of a file
toMedia(asset, fields) ==
    LET file    == GetKey(fields, "file")
        details == Prop(file, "details", <<>>)
    IN  Obj(<<KV("_id", S(asset.id)),
              KV("url", Prop(file, "url", <<>>)),
              KV("description", GetKey(fields, "description")),
              KV("contentType", Prop(file, "contentType", <<>>)),
              KV("dimensions", Pick(Prop(details, "image", <<>>), <<"width", "height">>)),
              KV("size", Prop(details, "size", <<>>)),
              KV("version", N(asset.revision))>>)

\* what the caller's mediaTransform answers for a descriptor
mediaTransform(media) == Obj(PutKey(media.e, "transformed", B(TRUE)))

\* what _toMedia resolves to
toMediaResult(media, hook) == IF hook THEN mediaTransform(media) ELSE media

\* single-locale: media = await this._toMedia(sys, asset.fields, mediaTransform)
\* starts; the hook, if given, is invoked
createLinksAsset ==
    /\ pc = "links"
    /\ ai <= Len(json.incAsset)
    /\ ~json.multi
    /\ LET asset == json.incAsset[ai]
       IN  /\ pending' = {[id |-> asset.id, addr |-> 0, locale |-> "",
                           media |-> toMedia(asset, asset.fields),
                           hook |-> json.transform]}
           /\ hooks' = IF json.transform
                       THEN Append(hooks, [id |-> asset.id, locale |-> ""])
                       ELSE hooks
    /\ pc' = "awaitMedia"
    /\ UNCHANGED <<json, heap, links, ai, rejected, result>>
    /\ UNCHANGED parseVars
    /\ UNCHANGED flattenVars

\* single-locale: _toMedia resolved; links[sys.id] = media
mediaResolved ==
    /\ pc = "awaitMedia"
    /\ \E p \in pending :
          /\ heap' = Append(heap, toMediaResult(p.media, p.hook).e)
          /\ links' = Bind(links, p.id, Len(heap) + 1)
    /\ pending' = {}
    /\ ai' = ai + 1
    /\ pc' = "links"
    /\ UNCHANGED <<json, hooks, rejected, result>>
    /\ UNCHANGED parseVars
    /\ UNCHANGED flattenVars

\* (mutant) single-locale: the hook's failure is caught and the asset skipped
mediaRejectedCaught ==
    /\ pc = "awaitMedia"
    /\ \E p \in pending :
          /\ p.hook
          /\ rejected' = rejected \cup {[id |-> p.id, locale |-> p.locale]}
    /\ pending' = {}
    /\ ai' = ai + 1
    /\ pc' = "links"
    /\ UNCHANGED <<json, heap, links, hooks, result>>
    /\ UNCHANGED parseVars
    /\ UNCHANGED flattenVars

\* single-locale: the hook failed; nothing catches it and _query fails
mediaRejected ==
    /\ pc = "awaitMedia"
    /\ \E p \in pending :
          /\ p.hook
          /\ rejected' = rejected \cup {[id |-> p.id, locale |-> p.locale]}
    /\ pending' = {}
    /\ pc' = "error"
    /\ result' = S("mediaTransform failed")
    /\ UNCHANGED <<json, heap, links, ai, hooks>>
    /\ UNCHANGED parseVars
    /\ UNCHANGED flattenVars

\* multi-locale: links[sys.id] = media = {}, and for every locale of the
\* asset that has a file an async callback is started and not awaited; each
\* runs _toMedia up to the hook's invocation
createLinksAssetByLocale ==
    /\ pc = "links"
    /\ ai <= Len(json.incAsset)
    /\ json.multi
    /\ LET asset   == json.incAsset[ai]
           locales == SelectSeq(parseAssetByLocale(asset),
                                LAMBDA g : Truthy(GetKey(g.v, "file")))
           addr    == Len(heap) + 1
       IN  /\ heap' = Append(heap, <<>>)
           /\ links' = Bind(links, asset.id, addr)
           /\ pending' = pending \cup
                  {[id |-> asset.id, addr |-> addr, locale |-> g.key,
                    media |-> toMedia(asset, g.v), hook |-> json.transform]
                     : g \in Range(locales)}
           /\ hooks' = IF json.transform
                       THEN hooks \o [i \in 1..Len(locales) |->
                                        [id |-> asset.id, locale |-> locales[i].key]]
                       ELSE hooks
    /\ ai' = ai + 1
    /\ UNCHANGED <<json, pc, rejected, result>>
    /\ UNCHANGED parseVars
    /\ UNCHANGED flattenVars

\* the points at which _query is suspended or over, so that a callback of
\* _createLinks may run
Suspended == pc \in {"awaitLinks", "awaitLocales", "done"}

\* multi-locale: a callback's _toMedia resolved: delete transformed._id;
\* media[locale] = transformed.  Without a hook it resolves in the turn
\* _createLinks returns in.
localeMediaResolved ==
    /\ Suspended
    /\ \E p \in pending :
          /\ p.hook \/ pc = "awaitLinks"
          /\ heap' = [heap EXCEPT ![p.addr] =
                         PutKey(@, p.locale,
                                Obj(DelKey(toMediaResult(p.media, p.hook).e, "_id")))]
          /\ pending' = pending \ {p}
    /\ UNCHANGED <<json, pc, links, ai, hooks, rejected, result>>
    /\ UNCHANGED parseVars
    /\ UNCHANGED flattenVars

\* (mutant) a callback's hook failed and nothing catches it
localeMediaRejectedUncaught ==
    /\ pc = "awaitLinks"
    /\ \E p \in pending :
          /\ p.hook
          /\ pending' = pending \ {p}
          /\ rejected' = rejected \cup {[id |-> p.id, locale |-> p.locale]}
    /\ pc' = "error"
    /\ result' = S("mediaTransform failed")
    /\ UNCHANGED <<json, heap, links, ai, hooks>>
    /\ UNCHANGED parseVars
    /\ UNCHANGED flattenVars

\* multi-locale: a callback's hook failed: caught and logged
localeMediaRejected ==
    /\ Suspended
    /\ \E p \in pending :
          /\ p.hook
          /\ pending' = pending \ {p}
          /\ rejected' = rejected \cup {[id |-> p.id, locale |-> p.locale]}
    /\ UNCHANGED <<json, pc, heap, links, ai, hooks, result>>
    /\ UNCHANGED parseVars
    /\ UNCHANGED flattenVars

\* links[entry.sys.id] = {_deferred: entry} for every entry of a list
RECURSIVE linkEntries(_, _)
linkEntries(st, entries) ==
    IF entries = <<>> THEN st
    ELSE linkEntries(
             [heap  |-> Append(st.heap, <<KV("_deferred", Raw(Head(entries)))>>),
              links |-> Bind(st.links, Head(entries).id, Len(st.heap) + 1)],
             Tail(entries))

\* (mutant) the payload's items are linked before the included entries
linkAllEntriesItemsFirst(st, payload) ==
    linkEntries(linkEntries(st, payload.items), payload.incEntry)

\* the included entries, then the payload's items
linkAllEntries(st, payload) ==
    linkEntries(linkEntries(st, payload.incEntry), payload.items)

\* _createLinks after its assets: the entries are linked and links returned
createLinksEntries ==
    /\ pc = "links"
    /\ ai > Len(json.incAsset)
    /\ LET st == linkAllEntries([heap |-> heap, links |-> links], json)
       IN  heap' = st.heap /\ links' = st.links
    /\ pc' = "awaitLinks"
    /\ UNCHANGED <<json, ai, pending, hooks, rejected, result>>
    /\ UNCHANGED parseVars
    /\ UNCHANGED flattenVars

(* --------------------------- the Entry Resolver ------------------------ *)

\* (mutant) _dereferenceLink returning a new object for the slot
dereferenceLinkResultCopy(id, l) ==
    IF id \in DOMAIN l THEN Obj(<<KV("_id", S(id))>>) ELSE Undef

\* what _dereferenceLink returns for a reference to id: nothing when the
\* Link Index has no slot for it, and the slot object otherwise
dereferenceLinkResult(id, l) == IF id \in DOMAIN l THEN Ref(l[id]) ELSE Undef

\* what _parseValue returns
parseValue(value, l) ==
    IF ~IsLink(value) THEN value ELSE dereferenceLinkResult(value.id, l)

\* _.map(array, item => this._parseValue(item, links))
parseValues(a, l) == [i \in 1..Len(a) |-> parseValue(a[i], l)]

\* values[locale] = v, where values is an object by value, an object of
\* the heap (an asset's locale map) or undefined (a TypeError)
setValue(acc, locale, v) ==
    CASE acc.values.k = "obj" ->
            [acc EXCEPT !.values = Obj(PutKey(acc.values.e, locale, v))]
      [] acc.values.k = "ref" ->
            [acc EXCEPT !.heap[acc.values.addr] = PutKey(@, locale, v)]
      [] OTHER -> [acc EXCEPT !.err = TRUE]

\* a reference to an asset replaces the whole of values by what
\* _dereferenceLink returns
setValues(acc, v) == [acc EXCEPT !.values = v]

\* the body of the forEach of _parseValueByLocale for one locale
parseValueAtLocale(acc, value, locale, l) ==
    LET v == GetKey(value.e, locale)
    IN  IF acc.err THEN acc
        ELSE IF IsArray(v)
        THEN setValue(acc, locale, Arr(Compact(parseValues(v.a, l))))
        ELSE IF ~IsLink(v) THEN setValue(acc, locale, v)
        ELSE IF v.lt = "Asset" THEN setValues(acc, dereferenceLinkResult(v.id, l))
        ELSE setValue(acc, locale, dereferenceLinkResult(v.id, l))

RECURSIVE parseValueLocales(_, _, _, _)
parseValueLocales(acc, value, locales, l) ==
    IF locales = <<>> THEN acc
    ELSE parseValueLocales(parseValueAtLocale(acc, value, Head(locales), l),
                           value, Tail(locales), l)

\* _parseValueByLocale: the values it returns, the heap it leaves and
\* whether it threw
parseValueByLocale(value, l, h) ==
    parseValueLocales([values |-> Obj(<<>>), heap |-> h, err |-> FALSE],
                      value, Keys(value.e), l)

\* the body of the forEach of _parseEntry for one field
parseField(acc, key, value, multi, l) ==
    IF acc.err THEN acc
    ELSE IF multi
    THEN LET r == parseValueByLocale(value, l, acc.heap)
         IN  [fields |-> IF ~r.err /\ ~IsEmpty(r.values, r.heap)
                         THEN PutKey(acc.fields, key, r.values)
                         ELSE acc.fields,
              heap |-> r.heap, err |-> r.err]
    ELSE IF IsArray(value)
    THEN [acc EXCEPT !.fields = PutKey(@, key, Arr(Compact(parseValues(value.a, l))))]
    ELSE LET parsed == parseValue(value, l)
         IN  IF ~IsEmpty(parsed, acc.heap)
             THEN [acc EXCEPT !.fields = PutKey(@, key, parsed)]
             ELSE acc

RECURSIVE parseFields(_, _, _, _)
parseFields(acc, fields, multi, l) ==
    IF fields = <<>> THEN acc
    ELSE parseFields(parseField(acc, Head(fields).key, Head(fields).v, multi, l),
                     Tail(fields), multi, l)

\* _parseEntry, given that every reference of the entry has been through
\* _dereferenceLink: the fields it returns, the heap it leaves, whether it
\* threw.  What _dereferenceLink returns does not depend on the resolution
\* it triggers, so this is evaluated when the call returns.
parseEntry(entry, multi, l, h) ==
    parseFields([fields |-> <<>>, heap |-> h, err |-> FALSE], entry.fields, multi, l)

\* the ids of the references of one (per-locale) field value, in the order
\* _parseValue meets them
valueTargets(v) ==
    IF IsArray(v)
    THEN LET ls == SelectSeq(v.a, IsLink) IN [i \in 1..Len(ls) |-> ls[i].id]
    ELSE IF IsLink(v) THEN <<v.id>>
    ELSE <<>>

RECURSIVE entriesTargets(_)
entriesTargets(e) ==
    IF e = <<>> THEN <<>>
    ELSE valueTargets(Head(e).v) \o entriesTargets(Tail(e))

RECURSIVE fieldsTargets(_, _)
fieldsTargets(fields, multi) ==
    IF fields = <<>> THEN <<>>
    ELSE (IF multi THEN entriesTargets(Head(fields).v.e)
          ELSE valueTargets(Head(fields).v))
         \o fieldsTargets(Tail(fields), multi)

\* the ids _parseEntry calls _dereferenceLink for, in order
dereferenceTargets(entry, multi) == fieldsTargets(entry.fields, multi)

\* a call of _parseEntry for the slot at addr
Frame(addr, top, multi, h) ==
    LET entry == GetKey(h[addr], "_deferred").rec
    IN  [addr |-> addr, id |-> entry.id, entry |-> entry, top |-> top,
         multi |-> multi, targets |-> dereferenceTargets(entry, multi), pos |-> 1]

\* model._id, model._type and model._updatedAt of _parseEntries
addMetadata(model, sys) ==
    LET m == PutKey(PutKey(model, "_id", S(sys.id)), "_type", S(sys.type))
    IN  IF sys.updatedAt # "" THEN PutKey(m, "_updatedAt", S(sys.updatedAt)) ELSE m

\* (mutant) the deferral is not pruned
resolveSlotKeepDeferred(slot, fields) == AssignKeys(slot, fields)

\* _.assign(link, parsed); delete link._deferred
resolveSlot(slot, fields) == DelKey(AssignKeys(slot, fields), "_deferred")

IsDeferred(slot) == Truthy(GetKey(slot, "_deferred"))

Top == stack[Len(stack)]

Pop == SubSeq(stack, 1, Len(stack) - 1)

\* the caller's forEach goes on to the next reference
Advance(st) == [st EXCEPT ![Len(st)].pos = @ + 1]

\* await this._createLinks(...) is over: _parseEntries starts
parseEntriesStart ==
    /\ pc = "awaitLinks"
    /\ \A p \in pending : p.hook
    /\ pc' = "parse"
    /\ UNCHANGED <<json, heap, links, ai, pending, hooks, rejected, result>>
    /\ UNCHANGED parseVars
    /\ UNCHANGED flattenVars

\* _parseEntries meets an item whose slot is deferred: _parseEntry is called
parseEntriesDeferred ==
    /\ pc = "parse"
    /\ stack = <<>>
    /\ ii <= Len(json.items)
    /\ LET addr == links[json.items[ii].id]
       IN  /\ IsDeferred(heap[addr])
           /\ stack' = <<Frame(addr, TRUE, json.multi, heap)>>
           /\ calls' = Append(calls, json.items[ii].id)
    /\ UNCHANGED <<json, pc, heap, links, ai, pending, hooks, rejected, ii, items, result>>
    /\ UNCHANGED flattenVars

\* _parseEntries meets an item whose slot is resolved already
parseEntriesResolved ==
    /\ pc = "parse"
    /\ stack = <<>>
    /\ ii <= Len(json.items)
    /\ LET addr == links[json.items[ii].id]
       IN  /\ ~IsDeferred(heap[addr])
           /\ heap' = [heap EXCEPT ![addr] = addMetadata(@, json.items[ii])]
           /\ items' = Append(items, Ref(addr))
    /\ ii' = ii + 1
    /\ UNCHANGED <<json, pc, links, ai, pending, hooks, rejected, stack, calls, result>>
    /\ UNCHANGED flattenVars

\* _dereferenceLink: no slot for the id: bail
dereferenceLinkMissing ==
    /\ pc = "parse"
    /\ stack # <<>>
    /\ Top.pos <= Len(Top.targets)
    /\ Top.targets[Top.pos] \notin DOMAIN links
    /\ stack' = Advance(stack)
    /\ UNCHANGED <<json, pc, heap, links, ai, pending, hooks, rejected, ii, calls, items, result>>
    /\ UNCHANGED flattenVars

\* (mutant) _dereferenceLink runs the transform again for a media slot
dereferenceLinkResolvedAgain ==
    /\ pc = "parse"
    /\ stack # <<>>
    /\ Top.pos <= Len(Top.targets)
    /\ LET id == Top.targets[Top.pos]
       IN  /\ id \in DOMAIN links
           /\ ~IsDeferred(heap[links[id]])
           /\ heap' = [heap EXCEPT ![links[id]] = PutKey(@, "_id", S(id))]
           /\ hooks' = IF json.transform /\ \E n \in 1..Len(json.incAsset) :
                                               json.incAsset[n].id = id
                       THEN Append(hooks, [id |-> id, locale |-> ""])
                       ELSE hooks
    /\ stack' = Advance(stack)
    /\ UNCHANGED <<json, pc, links, ai, pending, rejected, ii, calls, items, result>>
    /\ UNCHANGED flattenVars

\* _dereferenceLink: the slot is resolved (a media, or an entry resolved
\* before): link._id is set and the slot returned
dereferenceLinkResolved ==
    /\ pc = "parse"
    /\ stack # <<>>
    /\ Top.pos <= Len(Top.targets)
    /\ LET id == Top.targets[Top.pos]
       IN  /\ id \in DOMAIN links
           /\ ~IsDeferred(heap[links[id]])
           /\ heap' = [heap EXCEPT ![links[id]] = PutKey(@, "_id", S(id))]
    /\ stack' = Advance(stack)
    /\ UNCHANGED <<json, pc, links, ai, pending, hooks, rejected, ii, calls, items, result>>
    /\ UNCHANGED flattenVars

\* (mutant) only link._id is set on a deferred slot
markSlotIdOnly(slot, id) == PutKey(slot, "_id", S(id))

\* link._id and link._type of a deferred slot
markSlot(slot, id) ==
    PutKey(PutKey(slot, "_id", S(id)), "_type", S(GetKey(slot, "_deferred").rec.type))

\* _dereferenceLink: the slot is deferred: link._id and link._type are set
\* and _parseEntry is called for link._deferred
dereferenceLinkDeferred ==
    /\ pc = "parse"
    /\ stack # <<>>
    /\ Len(stack) < MaxDepth
    /\ Top.pos <= Len(Top.targets)
    /\ LET id == Top.targets[Top.pos]
       IN  /\ id \in DOMAIN links
           /\ IsDeferred(heap[links[id]])
           /\ heap' = [heap EXCEPT ![links[id]] = markSlot(@, id)]
           /\ stack' = Append(stack, Frame(links[id], FALSE, Top.multi, heap))
           /\ calls' = Append(calls, id)
    /\ UNCHANGED <<json, pc, links, ai, pending, hooks, rejected, ii, items, result>>
    /\ UNCHANGED flattenVars

\* the same with the call stack exhausted: a RangeError, which nothing
\* catches, and _query fails
dereferenceLinkOverflow ==
    /\ pc = "parse"
    /\ stack # <<>>
    /\ Len(stack) >= MaxDepth
    /\ Top.pos <= Len(Top.targets)
    /\ LET id == Top.targets[Top.pos]
       IN  /\ id \in DOMAIN links
           /\ IsDeferred(heap[links[id]])
           /\ heap' = [heap EXCEPT ![links[id]] = markSlot(@, id)]
    /\ pc' = "error"
    /\ result' = S("RangeError")
    /\ UNCHANGED <<json, links, ai, pending, hooks, rejected>>
    /\ UNCHANGED parseVars
    /\ UNCHANGED flattenVars

\* a _parseEntry called by _dereferenceLink returns: _.assign(link, parsed);
\* delete link._deferred; the link is returned to the caller
dereferenceLinkReturn ==
    /\ pc = "parse"
    /\ stack # <<>>
    /\ Top.pos > Len(Top.targets)
    /\ ~Top.top
    /\ LET r == parseEntry(Top.entry, Top.multi, links, heap)
       IN  IF r.err
           THEN /\ pc' = "error"
                /\ result' = S("TypeError")
                /\ UNCHANGED <<heap, stack>>
           ELSE /\ heap' = [r.heap EXCEPT ![Top.addr] = resolveSlot(@, r.fields)]
                /\ stack' = Advance(Pop)
                /\ UNCHANGED <<pc, result>>
    /\ UNCHANGED <<json, links, ai, pending, hooks, rejected, ii, calls, items>>
    /\ UNCHANGED flattenVars

\* the _parseEntry called by _parseEntries returns: _.assign(model, ...);
\* delete model._deferred; the metadata is added and the model returned
parseEntriesReturn ==
    /\ pc = "parse"
    /\ stack # <<>>
    /\ Top.pos > Len(Top.targets)
    /\ Top.top
    /\ LET r == parseEntry(Top.entry, Top.multi, links, heap)
       IN  IF r.err
           THEN /\ pc' = "error"
                /\ result' = S("TypeError")
                /\ UNCHANGED <<heap, stack, ii, items>>
           ELSE /\ heap' = [r.heap EXCEPT ![Top.addr] =
                               addMetadata(resolveSlot(@, r.fields), json.items[ii])]
                /\ stack' = <<>>
                /\ items' = Append(items, Ref(Top.addr))
                /\ ii' = ii + 1
                /\ UNCHANGED <<pc, result>>
    /\ UNCHANGED <<json, links, ai, pending, hooks, rejected, calls>>
    /\ UNCHANGED flattenVars

\* single-locale: _query returns the items
queryReturnItems ==
    /\ pc = "parse"
    /\ stack = <<>>
    /\ ii > Len(json.items)
    /\ ~json.multi
    /\ pc' = "done"
    /\ result' = Arr(items)
    /\ UNCHANGED <<json, heap, links, ai, pending, hooks, rejected>>
    /\ UNCHANGED parseVars
    /\ UNCHANGED flattenVars

\* multi-locale: _query awaits contentful.getLocales()
getLocales ==
    /\ pc = "parse"
    /\ stack = <<>>
    /\ ii > Len(json.items)
    /\ json.multi
    /\ pc' = "awaitLocales"
    /\ UNCHANGED <<json, heap, links, ai, pending, hooks, rejected, result>>
    /\ UNCHANGED parseVars
    /\ UNCHANGED flattenVars

(* -------------------------- the Locale Flattener ----------------------- *)

\* one step of the way from an item's output object to a context: a key of
\* an object, or an index of an array
AtKey(key) == [key |-> key, idx |-> 0]

AtIdx(idx) == [key |-> "", idx |-> idx]

\* the output tree with the node at path set to v; array elements are set
\* in the order of their indices
RECURSIVE SetAt(_, _, _)
SetAt(tree, path, v) ==
    IF path = <<>> THEN v
    ELSE LET s == Head(path)
         IN  IF s.idx = 0
             THEN Obj(PutKey(tree.e, s.key, SetAt(GetKey(tree.e, s.key), Tail(path), v)))
             ELSE IF s.idx <= Len(tree.a)
             THEN Arr([tree.a EXCEPT ![s.idx] = SetAt(@, Tail(path), v)])
             ELSE Arr(Append(tree.a, SetAt(Undef, Tail(path), v)))

\* the code of the locale flagged default, else "en-US"
defaultLocaleOf(locales) ==
    IF \E i \in 1..Len(locales) : locales[i].default
    THEN locales[CHOOSE i \in 1..Len(locales) :
                    /\ locales[i].default
                    /\ \A j \in 1..(i - 1) : ~locales[j].default].code
    ELSE "en-US"

\* value[locale] if truthy, else value[defaultLocale] if truthy, else the
\* value itself
localeValue(valueObj, locale, defaultLocale, h) ==
    IF Truthy(Prop(valueObj, locale, h)) THEN Prop(valueObj, locale, h)
    ELSE IF Truthy(Prop(valueObj, defaultLocale, h)) THEN Prop(valueObj, defaultLocale, h)
    ELSE valueObj

\* (mutant) the loop over the elements of an array stops one short
RECURSIVE flattenArrayShort(_, _, _, _, _)
flattenArrayShort(acc, path, a, index, depth) ==
    IF index >= Len(a) THEN acc
    ELSE flattenArrayShort(
             IF IsPrimitive(a[index])
             THEN [acc EXCEPT !.tree = SetAt(@, Append(path, AtIdx(index)), a[index])]
             ELSE [tree  |-> SetAt(acc.tree, Append(path, AtIdx(index)), Obj(<<>>)),
                   queue |-> Append(acc.queue,
                                    [context |-> Append(path, AtIdx(index)),
                                     item |-> a[index], depth |-> depth + 1])],
             path, a, index + 1, depth)

\* the loop over the elements of an array value
RECURSIVE flattenArray(_, _, _, _, _)
flattenArray(acc, path, a, index, depth) ==
    IF index > Len(a) THEN acc
    ELSE flattenArray(
             IF IsPrimitive(a[index])
             THEN [acc EXCEPT !.tree = SetAt(@, Append(path, AtIdx(index)), a[index])]
             ELSE [tree  |-> SetAt(acc.tree, Append(path, AtIdx(index)), Obj(<<>>)),
                   queue |-> Append(acc.queue,
                                    [context |-> Append(path, AtIdx(index)),
                                     item |-> a[index], depth |-> depth + 1])],
             path, a, index + 1, depth)

\* the body of the loop over Object.entries(item) for one key
flattenKey(acc, current, key, valueObj, locale, defaultLocale, h) ==
    LET value == localeValue(valueObj, locale, defaultLocale, h)
        path  == Append(current.context, AtKey(key))
    IN  IF valueObj = Undef THEN acc
        ELSE IF IsPrimitive(value)
        THEN [acc EXCEPT !.tree = SetAt(@, path, value)]
        ELSE IF ~IsArray(value)
        THEN [tree  |-> SetAt(acc.tree, path, Obj(<<>>)),
              queue |-> Append(acc.queue,
                               [context |-> path, item |-> value,
                                depth |-> current.depth + 1])]
        ELSE flattenArray([acc EXCEPT !.tree = SetAt(@, path, Arr(<<>>))],
                          path, value.a, 1, current.depth)

RECURSIVE flattenKeys(_, _, _, _, _, _)
flattenKeys(acc, current, entries, locale, defaultLocale, h) ==
    IF entries = <<>> THEN acc
    ELSE flattenKeys(
             flattenKey(acc, current, Head(entries).key, Head(entries).v,
                        locale, defaultLocale, h),
             current, Tail(entries), locale, defaultLocale, h)

\* (mutant) the node handled is left on the queue
flattenCurrentKeep(tree, q, locale, defaultLocale, h) ==
    flattenKeys([tree |-> tree, queue |-> q], Head(q),
                Entries(Head(q).item, h), locale, defaultLocale, h)

\* one turn of the while loop: the head of the queue is taken and every
\* key of its item handled
flattenCurrent(tree, q, locale, defaultLocale, h) ==
    flattenKeys([tree |-> tree, queue |-> Tail(q)], Head(q),
                Entries(Head(q).item, h), locale, defaultLocale, h)

\* the list of a locale in localeItems
LocaleList(o, locale) == GetKey(o, locale).a

\* contentful.getLocales() answered: _flattenLocales starts
flattenLocales ==
    /\ pc = "awaitLocales"
    /\ catalog' \in Catalogs
    /\ pc' = "flatten"
    /\ fl' = 1
    /\ fit' = 1
    /\ queue' = <<>>
    /\ out' = <<>>
    /\ pushed' = <<>>
    /\ visited' = <<>>
    /\ UNCHANGED <<json, heap, links, ai, pending, hooks, rejected, result>>
    /\ UNCHANGED parseVars

\* the next (locale, rawItem): an empty itemContext is pushed on the
\* locale's list and the walk starts at the item
flattenItem ==
    /\ pc = "flatten"
    /\ queue = <<>>
    /\ fl <= Len(catalog)
    /\ fit <= Len(items)
    /\ LET locale == catalog[fl].code
           list   == IF fit = 1 THEN <<>> ELSE LocaleList(out, locale)
       IN  out' = PutKey(out, locale, Arr(Append(list, Obj(<<>>))))
    /\ queue' = <<[context |-> <<>>, item |-> items[fit], depth |-> 0]>>
    /\ pushed' = queue'
    /\ visited' = <<>>
    /\ UNCHANGED <<json, pc, heap, links, ai, pending, hooks, rejected, catalog, fl, fit, result>>
    /\ UNCHANGED parseVars

\* one turn of the while loop; when it empties the queue the loops go on
\* to the next item, or to the next locale
flattenNode ==
    /\ pc = "flatten"
    /\ queue # <<>>
    /\ LET locale == catalog[fl].code
           list   == LocaleList(out, locale)
           r      == flattenCurrent(list[fit], queue, locale,
                                    defaultLocaleOf(catalog), heap)
       IN  /\ out' = PutKey(out, locale, Arr([list EXCEPT ![fit] = r.tree]))
           /\ queue' = r.queue
           /\ pushed' = pushed \o SubSeq(r.queue, Len(queue), Len(r.queue))
           /\ visited' = Append(visited, Head(queue))
           /\ IF r.queue # <<>> THEN UNCHANGED <<fl, fit>>
              ELSE IF fit < Len(items) THEN fit' = fit + 1 /\ fl' = fl
              ELSE fit' = 1 /\ fl' = fl + 1
    /\ UNCHANGED <<json, pc, heap, links, ai, pending, hooks, rejected, catalog, result>>
    /\ UNCHANGED parseVars

\* multi-locale: _flattenLocales returns localeItems and _query returns it
queryReturnLocales ==
    /\ pc = "flatten"
    /\ queue = <<>>
    /\ fl > Len(catalog)
    /\ pc' = "done"
    /\ result' = Obj(out)
    /\ UNCHANGED <<json, heap, links, ai, pending, hooks, rejected>>
    /\ UNCHANGED parseVars
    /\ UNCHANGED flattenVars

Next ==
    \/ createLinksAsset
    \/ mediaResolved
    \/ mediaRejected
    \/ createLinksAssetByLocale
    \/ localeMediaResolved
    \/ localeMediaRejected
    \/ createLinksEntries
    \/ parseEntriesStart
    \/ parseEntriesDeferred
    \/ parseEntriesResolved
    \/ dereferenceLinkMissing
    \/ dereferenceLinkResolved
    \/ dereferenceLinkDeferred
    \/ dereferenceLinkOverflow
    \/ dereferenceLinkReturn
    \/ parseEntriesReturn
    \/ queryReturnItems
    \/ getLocales
    \/ flattenLocales
    \/ flattenItem
    \/ flattenNode
    \/ queryReturnLocales

Spec == Init /\ [][Next]_vars

(* ------------------------- what the claims speak of -------------------- *)

\* the entry records of the payload, in the order _createLinks links them
EntryRecords == json.incEntry \o json.items

PayloadEntryIds == {EntryRecords[i].id : i \in 1..Len(EntryRecords)}

\* the record of the payload a slot of the Link Index is expected to stand
\* for: the last one of that id, the items after the includes
RecordOf(id) ==
    EntryRecords[CHOOSE i \in 1..Len(EntryRecords) :
                    /\ EntryRecords[i].id = id
                    /\ \A j \in (i + 1)..Len(EntryRecords) : EntryRecords[j].id # id]

\* the slot object of an id
Slot(id) == heap[links[id]]

\* the entries whose resolution is over
ResolvedEntries ==
    {id \in PayloadEntryIds \cap DOMAIN links :
        ~IsDeferred(Slot(id)) /\ id \in Range(calls)}

\* _createLinks has returned the Link Index
Linked == pc \notin {"links", "awaitMedia"} /\ result # S("mediaTransform failed")

\* _parseEntries is over
Parsed == pc \in {"awaitLocales", "flatten", "done"}

\* the per-locale values of a raw field: its locales in multi-locale mode,
\* and the one value under no locale otherwise
FieldValues(v) ==
    IF json.multi THEN {[locale |-> v.e[j].key, v |-> v.e[j].v] : j \in 1..Len(v.e)}
    ELSE {[locale |-> "", v |-> v]}

\* the resolved value of field key of a model, at a locale
ResolvedAt(id, key, locale) ==
    IF json.multi THEN Prop(GetKey(Slot(id), key), locale, heap)
    ELSE GetKey(Slot(id), key)

\* the ids a record refers to that the Link Index knows
RefsOf(rec) ==
    {x \in DOMAIN links :
        \E i \in 1..Len(rec.fields) : \E fv \in FieldValues(rec.fields[i].v) :
            x \in Range(valueTargets(fv.v))}

\* the ids reachable from id in at most n references
RECURSIVE ReachableIn(_, _)
ReachableIn(ids, n) ==
    IF n = 0 THEN ids
    ELSE ReachableIn(ids \cup UNION {RefsOf(RecordOf(x)) : x \in ids \cap PayloadEntryIds}, n - 1)

\* no entry of the payload reaches itself through references
Acyclic ==
    \A id \in PayloadEntryIds \cap DOMAIN links :
        id \notin ReachableIn(RefsOf(RecordOf(id)), Cardinality(PayloadEntryIds))

(* ------------------------------ the claims ----------------------------- *)

\* C1 (as claimed): resolution of a payload with a reference cycle never
\* re-enters the field resolution of an id whose resolution is in progress,
\* and it terminates with a result instead of exhausting the call stack.
C1_CycleTerminates ==
    /\ \A i, j \in 1..Len(stack) : i # j => stack[i].id # stack[j].id
    /\ result # S("RangeError")

\* what a raw per-locale value with references must have resolved to
SharedOK(raw, got) ==
    IF IsLink(raw)
    THEN (raw.lt = "Entry" /\ raw.id \in DOMAIN links) => got = Ref(links[raw.id])
    ELSE IF IsArray(raw) /\ \A i \in 1..Len(raw.a) : IsLink(raw.a[i]) /\ raw.a[i].lt = "Entry"
    THEN LET known == SelectSeq(raw.a, LAMBDA x : x.id \in DOMAIN links)
         IN  got = Arr([i \in 1..Len(known) |-> Ref(links[known[i].id])])
    ELSE TRUE

\* C2: every field of a resolved entry that references an entry X of the
\* Link Index, bare or under a locale, alone or in an array, holds the slot
\* object links[X] itself, and so does the returned list for each item.
C2_SharedInstance ==
    /\ \A id \in ResolvedEntries :
          \A i \in 1..Len(RecordOf(id).fields) :
             \A fv \in FieldValues(RecordOf(id).fields[i].v) :
                SharedOK(fv.v, ResolvedAt(id, RecordOf(id).fields[i].key, fv.locale))
    /\ \A i \in 1..Len(items) : items[i] = Ref(links[json.items[i].id])

\* C2's case: e2 is a top-level item after e1, and e1's field references it
C2_Witness ==
    /\ pc = "done"
    /\ Len(items) = 2
    /\ json.items[1].id = "e1"
    /\ json.items[2].id = "e2"
    /\ ResolvedAt("e1", "f", IF json.multi THEN "en-US" ELSE "") = items[2]

\* C3: over an acyclic payload _parseEntry is called at most once for each id.
C3_AtMostOnce ==
    (Linked /\ Acyclic) =>
        \A i, j \in 1..Len(calls) : i # j => calls[i] # calls[j]

\* C3's case: e3 is referenced by both items and the query is over
C3_Witness ==
    /\ pc = "done"
    /\ Len(items) = 2
    /\ Acyclic
    /\ "e3" \in RefsOf(json.items[1]) \cap RefsOf(json.items[2])
    /\ json.items[1].id # json.items[2].id
    /\ "e3" \in ResolvedEntries

\* the raw field references ids only, none of which the Link Index knows
AllMissing(v) ==
    \A fv \in FieldValues(v) : IsLink(fv.v) /\ fv.v.id \notin DOMAIN links

\* the codes of the catalog _flattenLocales was given
CatalogCodes == {catalog[i].code : i \in 1..Len(catalog)}

\* the flattened model of item i for a locale, in what _query returned
Flat(locale, i) == GetKey(result.e, locale).a[i]

\* C4 (as claimed): a non-array field whose reference is to an id absent
\* from the Link Index raises no error and leaves no key in the resolved
\* Model, in either mode, nor in the flattened output of any locale.
C4_OmitMissingLink ==
    /\ result # S("TypeError")
    /\ \A id \in ResolvedEntries :
          \A i \in 1..Len(RecordOf(id).fields) :
             AllMissing(RecordOf(id).fields[i].v)
                => ~HasKey(Slot(id), RecordOf(id).fields[i].key)
    /\ (pc = "done" /\ json.multi) =>
          \A n \in 1..Len(json.items) : \A i \in 1..Len(json.items[n].fields) :
             \A locale \in CatalogCodes :
                AllMissing(json.items[n].fields[i].v)
                   => ~HasKey(Flat(locale, n).e, json.items[n].fields[i].key)

\* C5 (as claimed): in single-locale mode a field whose raw value is a
\* non-empty string, a number or a boolean is in the resolved Model with
\* exactly that value.
C5_ScalarPassThrough ==
    ~json.multi =>
       \A id \in ResolvedEntries :
          \A i \in 1..Len(RecordOf(id).fields) :
             LET key == RecordOf(id).fields[i].key
                 v   == RecordOf(id).fields[i].v
             IN  (v.k \in {"num", "bool"} \/ (v.k = "str" /\ v.s # ""))
                    => HasKey(Slot(id), key) /\ GetKey(Slot(id), key) = v

\* C6 (as claimed): in multi-locale mode the resolved value of a field at a
\* locale L where it references asset X is the L variant of X's locale map,
\* and nothing when X is unknown, whatever the field holds at other locales.
C6_LocaleMediaVariant ==
    json.multi =>
       \A id \in ResolvedEntries :
          \A i \in 1..Len(RecordOf(id).fields) :
             \A fv \in FieldValues(RecordOf(id).fields[i].v) :
                (IsLink(fv.v) /\ fv.v.lt = "Asset") =>
                   ResolvedAt(id, RecordOf(id).fields[i].key, fv.locale)
                      = IF fv.v.id \in DOMAIN links
                        THEN Prop(Ref(links[fv.v.id]), fv.locale, heap)
                        ELSE Undef

\* the file of an included asset at a locale
FileAt(id, locale) ==
    LET asset == json.incAsset[CHOOSE n \in 1..Len(json.incAsset) : json.incAsset[n].id = id]
    IN  Prop(GetKey(asset.fields, "file"), locale, heap)

\* C7 (as claimed): in multi-locale mode every per-locale media descriptor
\* whose transform does not fail is in its asset's locale map before the
\* Entry Resolver starts, and so in the flattened result wherever a field
\* references the asset at that locale only.
C7_HooksCompleteFirst ==
    json.multi =>
       /\ pc \in {"parse", "awaitLocales", "flatten", "done"} => pending = {}
       /\ pc = "done" =>
             \A n \in 1..Len(json.items) : \A i \in 1..Len(json.items[n].fields) :
                LET key == json.items[n].fields[i].key
                    v   == json.items[n].fields[i].v
                IN  \A locale \in CatalogCodes :
                       ( /\ Len(v.e) = 1
                         /\ v.e[1].key = locale
                         /\ IsLink(v.e[1].v)
                         /\ v.e[1].v.lt = "Asset"
                         /\ v.e[1].v.id \in DOMAIN links
                         /\ Truthy(FileAt(v.e[1].v.id, locale))
                         /\ [id |-> v.e[1].v.id, locale |-> locale] \notin rejected )
                       => Prop(GetKey(Flat(locale, n).e, key), "url", heap)
                             = Prop(FileAt(v.e[1].v.id, locale), "url", heap)

\* the locale codes a payload's fields are keyed by
LocaleCodes == {"en-US", "fr", "de"}

\* an object keyed by a locale code somewhere in an output tree
RECURSIVE HasLocaleMap(_)
HasLocaleMap(tree) ==
    CASE tree.k = "obj" ->
            \/ \E i \in 1..Len(tree.e) : tree.e[i].key \in LocaleCodes
            \/ \E i \in 1..Len(tree.e) : HasLocaleMap(tree.e[i].v)
      [] tree.k = "arr" -> \E i \in 1..Len(tree.a) : HasLocaleMap(tree.a[i])
      [] OTHER -> FALSE

\* C8 (as claimed): the flattened list of every locale of the catalog holds
\* no locale-keyed mapping at any field or array element.
C8_NoLocaleMapLeaves ==
    (pc = "done" /\ json.multi) =>
       \A locale \in CatalogCodes : \A n \in 1..Len(items) :
          ~HasLocaleMap(Flat(locale, n))

\* C9 (as claimed): a scalar field with a value at locale L is flattened
\* for L to that value, and one with a value at the default locale only to
\* the default locale's value.
C9_LocaleFallback ==
    (pc = "done" /\ json.multi) =>
       \A n \in 1..Len(json.items) : \A i \in 1..Len(json.items[n].fields) :
          LET key == json.items[n].fields[i].key
              v   == json.items[n].fields[i].v
              def == defaultLocaleOf(catalog)
          IN  (\A fv \in FieldValues(v) : IsPrimitive(fv.v)) =>
                 \A locale \in CatalogCodes :
                    /\ HasKey(v.e, locale)
                          => GetKey(Flat(locale, n).e, key) = GetKey(v.e, locale)
                    /\ (~HasKey(v.e, locale) /\ HasKey(v.e, def))
                          => GetKey(Flat(locale, n).e, key) = GetKey(v.e, def)

\* the fields of a model: its keys but the metadata and the deferral
ModelFieldKeys(id) == Range(Keys(Slot(id))) \ {"_id", "_type", "_updatedAt", "_deferred"}

\* C10: the slot of an id is the one written last, the items after the
\* includes: while deferred it holds the top-level item's record, and once
\* resolved its fields are those of the top-level item.
C10_ItemsTakePrecedence ==
    Linked =>
       /\ DOMAIN links \cap PayloadEntryIds = PayloadEntryIds
       /\ \A n \in 1..Len(json.items) :
             LET rec == json.items[n]
             IN  IF IsDeferred(Slot(rec.id))
                 THEN GetKey(Slot(rec.id), "_deferred") = Raw(rec)
                 ELSE /\ ModelFieldKeys(rec.id) \subseteq Range(Keys(rec.fields))
                      /\ rec.id \in ResolvedEntries =>
                            \A i \in 1..Len(rec.fields) :
                               \A fv \in FieldValues(rec.fields[i].v) :
                                  (fv.v.k = "str" /\ fv.v.s # "") =>
                                     ResolvedAt(rec.id, rec.fields[i].key, fv.locale) = fv.v

\* C10's case: the first item also comes, with another title, in
\* includes.Entry, and the other item references it
C10_Witness ==
    /\ pc = "done"
    /\ Len(json.items) = 2
    /\ json.incEntry[1].id = json.items[1].id
    /\ json.incEntry[1].fields # json.items[1].fields
    /\ json.items[1].id \in RefsOf(json.items[2])
    /\ ResolvedAt(json.items[1].id, "t", IF json.multi THEN "en-US" ELSE "") = S("one")

\* a raw value that is an array of references only
IsRefArray(v) == IsArray(v) /\ v.a # <<>> /\ \A i \in 1..Len(v.a) : IsLink(v.a[i])

\* the references of an array whose ids the Link Index knows, in their order
Resolvable(a) == SelectSeq(a, LAMBDA x : x.id \in DOMAIN links)

\* C11: in single-locale mode an array field of references, entries or
\* assets, resolves to the array of the slot objects of the references whose
\* ids the Link Index knows, in their original order: as many elements as
\* there are resolvable references, and no undefined element.
C11_ArrayCompaction ==
    ~json.multi =>
       \A id \in ResolvedEntries :
          \A i \in 1..Len(RecordOf(id).fields) :
             LET key == RecordOf(id).fields[i].key
                 v   == RecordOf(id).fields[i].v
             IN  IsRefArray(v) =>
                    /\ HasKey(Slot(id), key)
                    /\ GetKey(Slot(id), key) =
                          Arr([j \in 1..Len(Resolvable(v.a)) |->
                                  Ref(links[Resolvable(v.a)[j].id])])
                    /\ \A j \in 1..Len(GetKey(Slot(id), key).a) :
                          GetKey(Slot(id), key).a[j] # Undef

\* C11's case: the query is over and an array field of the item had a
\* resolvable and an unresolvable reference
C11_Witness ==
    /\ pc = "done"
    /\ ~json.multi
    /\ \E i \in 1..Len(json.items[1].fields) :
          LET key == json.items[1].fields[i].key
              v   == json.items[1].fields[i].v
          IN  /\ IsRefArray(v)
              /\ Resolvable(v.a) # <<>>
              /\ Len(Resolvable(v.a)) < Len(v.a)
              /\ Len(GetKey(Slot(json.items[1].id), key).a) = Len(Resolvable(v.a))

\* the ids of the included assets
AssetIds == {json.incAsset[n].id : n \in 1..Len(json.incAsset)}

\* the transform of an (asset, locale) has settled
Settled(id, locale) == \A p \in pending : ~(p.id = id /\ p.locale = locale)

\* C12: in multi-locale mode a failure of the media transform for one
\* (asset, locale) does not fail the query; that locale is absent from the
\* asset's locale map, and every locale group with a file, of that asset or
\* of another, whose transform has succeeded is in its asset's locale map
\* with the descriptor of that locale's file.
C12_FailureIsolated ==
    json.multi =>
       /\ rejected # {} => (pc # "error" /\ result.k # "str")
       /\ \A id \in AssetIds \cap DOMAIN links : \A locale \in LocaleCodes :
             LET file == FileAt(id, locale)
             IN  /\ [id |-> id, locale |-> locale] \in rejected
                       => ~HasKey(Slot(id), locale)
                 /\ ( /\ Truthy(file)
                      /\ [id |-> id, locale |-> locale] \notin rejected
                      /\ Settled(id, locale)
                      /\ Linked )
                       => /\ HasKey(Slot(id), locale)
                          /\ Prop(GetKey(Slot(id), locale), "url", heap)
                                = Prop(file, "url", heap)

\* C12's case: the transform of a1 failed at en-US only, every other
\* transform succeeded, and the query returned its flattened result
C12_Witness ==
    /\ json.multi
    /\ pc = "done"
    /\ result.k = "obj"
    /\ pending = {}
    /\ rejected = {[id |-> "a1", locale |-> "en-US"]}
    /\ ~HasKey(Slot("a1"), "en-US")
    /\ HasKey(Slot("a1"), "fr")
    /\ HasKey(Slot("a2"), "en-US")

\* C13: in single-locale mode a failure of the media transform for an
\* included asset fails the query with that error: no entry is linked or
\* resolved, no model is returned, and the query stays failed.
C13_FailurePropagates ==
    (~json.multi /\ rejected # {}) =>
       /\ pc = "error"
       /\ result = S("mediaTransform failed")
       /\ calls = <<>>
       /\ items = <<>>
       /\ stack = <<>>
       /\ PayloadEntryIds \cap DOMAIN links = {}
       /\ pending = {}

\* C13's case: the transform succeeded for the first asset and failed for
\* the second
C13_Witness ==
    /\ ~json.multi
    /\ pc = "error"
    /\ rejected = {[id |-> "a2", locale |-> ""]}
    /\ "a1" \in DOMAIN links
    /\ hooks = <<[id |-> "a1", locale |-> ""], [id |-> "a2", locale |-> ""]>>

\* the invocations of the transform a query owes: one per included asset
\* in single-locale mode, one per asset and locale with a file otherwise
OwedHooks ==
    IF ~json.transform THEN {}
    ELSE IF json.multi
    THEN {h \in [id : AssetIds, locale : LocaleCodes] : Truthy(FileAt(h.id, h.locale))}
    ELSE {[id |-> id, locale |-> ""] : id \in AssetIds}

\* the ids referenced by the raw fields of a list of records, one per
\* reference
RECURSIVE recordsTargets(_)
recordsTargets(recs) ==
    IF recs = <<>> THEN <<>>
    ELSE dereferenceTargets(Head(recs), json.multi) \o recordsTargets(Tail(recs))

\* the number of references to an id in the payload's entries
RefCount(id) == Len(SelectSeq(recordsTargets(EntryRecords), LAMBDA x : x = id))

\* C14: the transform is never invoked twice for an asset (single-locale)
\* or for an asset and locale (multi-locale), only for those the payload
\* includes with a file, and once _createLinks has returned it has been
\* invoked for every one of them; resolution and flattening add none.
C14_HookOncePerAsset ==
    /\ \A i, j \in 1..Len(hooks) : i # j => hooks[i] # hooks[j]
    /\ Range(hooks) \subseteq OwedHooks
    /\ Linked => Range(hooks) = OwedHooks

\* C14's case: the query is over, a1 was referenced twice and a2 never,
\* and the transform was invoked once for each
C14_Witness ==
    /\ pc = "done"
    /\ json.transform
    /\ ~json.multi
    /\ RefCount("a1") = 2
    /\ RefCount("a2") = 0
    /\ hooks = <<[id |-> "a1", locale |-> ""], [id |-> "a2", locale |-> ""]>>

\* _flattenLocales is at its return
Flattened == pc = "flatten" /\ queue = <<>> /\ fl > Len(catalog)

\* the keys of a source node the flattener does not skip
Present(item) == SelectSeq(Entries(item, heap), LAMBDA x : x.v # Undef)

\* o is built from the source value under a key (MirrorsValue), from a
\* source node key by key (MirrorsNode): a primitive is copied, an object
\* is mirrored by an object with the same keys in the same order, and an
\* array by an array of the same length, element by element
RECURSIVE MirrorsValue(_, _, _, _)
RECURSIVE MirrorsNode(_, _, _, _)
MirrorsValue(valueObj, o, locale, def) ==
    LET value == localeValue(valueObj, locale, def, heap)
    IN  IF IsPrimitive(value) THEN o = value
        ELSE IF IsArray(value)
        THEN /\ o.k = "arr"
             /\ Len(o.a) = Len(value.a)
             /\ \A j \in 1..Len(value.a) :
                   IF IsPrimitive(value.a[j]) THEN o.a[j] = value.a[j]
                   ELSE MirrorsNode(value.a[j], o.a[j], locale, def)
        ELSE MirrorsNode(value, o, locale, def)

MirrorsNode(item, o, locale, def) ==
    /\ o.k = "obj"
    /\ Keys(o.e) = Keys(Present(item))
    /\ \A i \in 1..Len(o.e) :
          MirrorsValue(Present(item)[i].v, o.e[i].v, locale, def)

WalkLocale ==
    IF queue # <<>> \/ fit > 1 THEN catalog[fl].code ELSE catalog[fl - 1].code

WalkItem == IF queue # <<>> THEN fit ELSE IF fit > 1 THEN fit - 1 ELSE Len(items)

\* the node of an output tree at a path
RECURSIVE AtPath(_, _)
AtPath(tree, path) ==
    IF path = <<>> THEN tree
    ELSE AtPath(IF Head(path).idx = 0 THEN GetKey(tree.e, Head(path).key)
                ELSE tree.a[Head(path).idx],
                Tail(path))

\* the number of source nodes a walk from item has to visit, each counted
\* once for every path to it
RECURSIVE CountNodes(_, _, _)
RECURSIVE CountKeys(_, _, _)
RECURSIVE CountElems(_, _, _)
CountNodes(item, locale, def) == 1 + CountKeys(Present(item), locale, def)

CountKeys(entries, locale, def) ==
    IF entries = <<>> THEN 0
    ELSE LET value == localeValue(Head(entries).v, locale, def, heap)
         IN  (IF IsPrimitive(value) THEN 0
              ELSE IF IsArray(value) THEN CountElems(value.a, locale, def)
              ELSE CountNodes(value, locale, def))
             + CountKeys(Tail(entries), locale, def)

CountElems(a, locale, def) ==
    IF a = <<>> THEN 0
    ELSE (IF IsPrimitive(Head(a)) THEN 0 ELSE CountNodes(Head(a), locale, def))
         + CountElems(Tail(a), locale, def)

\* the walk of one model: the nodes pushed are those taken, in the same
\* order, and those still queued; no output node is pushed twice; a node
\* taken has had every key of its source node handled; and when the queue
\* is empty every source node reachable from the model has been taken
WalkOK ==
    /\ pushed = visited \o queue
    /\ \A i, j \in 1..Len(pushed) : i # j => pushed[i].context # pushed[j].context
    /\ visited # <<>> =>
          LET tree == LocaleList(out, WalkLocale)[WalkItem]
          IN  /\ visited[1] = [context |-> <<>>, item |-> items[WalkItem], depth |-> 0]
              /\ \A i \in 1..Len(visited) :
                    LET o == AtPath(tree, visited[i].context)
                    IN  o.k = "obj" /\ Keys(o.e) = Keys(Present(visited[i].item))
              /\ queue = <<>> =>
                    Len(visited) = CountNodes(items[WalkItem], WalkLocale,
                                              defaultLocaleOf(catalog))

\* the loops of _flattenLocales have a next turn (the guard of flattenNode,
\* or that of flattenItem), or _flattenLocales returns
FlattenCanStep ==
    \/ queue # <<>>
    \/ queue = <<>> /\ fl <= Len(catalog) /\ fit <= Len(items)
    \/ queue = <<>> /\ fl > Len(catalog)

\* C16: over the models of an acyclic payload the queue loop of
\* _flattenLocales terminates for every locale and model: the loops always
\* have a next turn until _flattenLocales returns, every turn of the queue
\* loop takes one node, and no walk pushes more nodes than the model has
\* reachable source nodes.  Every node pushed on the queue is taken from it
\* exactly once, the queue is empty when the walk ends, and every key of
\* every source node reachable from the model is handled.
C16_FlattenTerminates ==
    pc = "flatten" =>
       /\ WalkOK
       /\ FlattenCanStep
       /\ fit <= Len(items)
       /\ fl <= Len(catalog) + 1
       /\ pushed # <<>> =>
             Len(pushed) <= CountNodes(items[WalkItem], WalkLocale,
                                       defaultLocaleOf(catalog))

\* C16's case: the last walk is over and took the model, its two
\* referenced models and nothing else
C16_Witness ==
    /\ Flattened
    /\ Len(visited) = 3
    /\ visited = pushed
    /\ visited[2].depth = 1
    /\ visited[3].context = <<AtKey("f"), AtIdx(2)>>

\* the entries reachable from the payload's items through references
ReachableEntries ==
    ReachableIn({json.items[n].id : n \in 1..Len(json.items)},
                Cardinality(PayloadEntryIds)) \cap PayloadEntryIds

\* a slot is resolved: no deferral, and the id and type of its record
IsResolved(id) ==
    /\ ~HasKey(Slot(id), "_deferred")
    /\ GetKey(Slot(id), "_id") = S(id)
    /\ GetKey(Slot(id), "_type") = S(RecordOf(id).type)

\* a key _deferred somewhere in an output tree
RECURSIVE HasDeferred(_)
HasDeferred(tree) ==
    CASE tree.k = "obj" ->
            \/ HasKey(tree.e, "_deferred")
            \/ \E i \in 1..Len(tree.e) : HasDeferred(tree.e[i].v)
      [] tree.k = "arr" -> \E i \in 1..Len(tree.a) : HasDeferred(tree.a[i])
      [] OTHER -> FALSE

\* what the query returned holds the models, without a deferral
ReturnedResolved ==
    IF json.multi
    THEN \A locale \in CatalogCodes : \A n \in 1..Len(json.items) :
            /\ ~HasDeferred(Flat(locale, n))
            /\ GetKey(Flat(locale, n).e, "_id") = S(json.items[n].id)
            /\ GetKey(Flat(locale, n).e, "_type") = S(json.items[n].type)
    ELSE result = Arr([n \in 1..Len(json.items) |-> Ref(links[json.items[n].id])])

\* C17: a slot of the Link Index that is not deferred never becomes deferred
\* again and keeps its place in the index; the slot of an asset is never
\* deferred; and when the query over an acyclic payload has returned, every
\* entry reachable from the returned items, the items themselves and those
\* reached through references, is resolved: no _deferred, and its _id and
\* _type.
C17_SlotsMonotonic ==
    /\ [][\A id \in DOMAIN links :
             ~IsDeferred(heap[links[id]])
                => id \in DOMAIN links' /\ ~IsDeferred(heap'[links'[id]])]_vars
    /\ [](\A id \in AssetIds \cap DOMAIN links : ~IsDeferred(Slot(id)))
    /\ []((pc = "done" /\ Acyclic) =>
             /\ \A id \in ReachableEntries : IsResolved(id)
             /\ ReturnedResolved)

\* C17's case: the query returned one item, which references e2, which
\* references e3, and both were resolved on the way
C17_Witness ==
    /\ pc = "done"
    /\ Acyclic
    /\ Len(json.items) = 1
    /\ "e2" \in RefsOf(json.items[1])
    /\ "e3" \in RefsOf(RecordOf("e2"))
    /\ calls = <<json.items[1].id, "e2", "e3">>
    /\ IsResolved("e3")

====
